---- MODULE Spec2Model ----
(***************************************************************************)
(* The in-memory cache of reddit-mcp-server (class CacheManager): a        *)
(* size-bounded key/value store with score-based eviction, TTLs resolved   *)
(* from key patterns, lazy expiry on read and a periodic cleanup timer.    *)
(*                                                                         *)
(* Time is Date.now() in milliseconds.  JavaScript runs every method to    *)
(* completion, so each call is one step of the model and reads one clock   *)
(* value.  The one exception is a call of set whose admit loop makes no    *)
(* progress: the loop keeps re-reading the clock, so the call stays in the *)
(* loop (pc = "set") while the clock runs on, and SetResume continues it.  *)
(***************************************************************************)
EXTENDS Integers, Sequences, FiniteSets, TLC

VARIABLES
    cache,         \* Map<string, CacheEntry>, as the sequence of entries in insertion order
    sizeUsed,      \* running total of the resident entries' sizes
    maxSize,       \* readonly option
    defaultTTL,    \* readonly option
    cleanupTimer,  \* the setInterval handle, or no timer
    now,           \* Date.now()
    pc,            \* "idle", or "set" while a call of set is in its admit loop
    args,          \* the frame of the running set call
    destroyed,     \* whether destroy() has been called
    last,          \* the last completed call: its name, arguments, the path it took, its return value
    twin,          \* a second run of the same calls at the same times, passing any customTTL to set
    probe          \* input and output of one TTL resolution (specification TTLSpec)

vars == <<cache, sizeUsed, maxSize, defaultTTL, cleanupTimer, now, pc, args, destroyed, last, twin, probe>>

---------------------------------------------------------------------------
(* Bounds of the model *)

MaxCoarse == 1
MaxHits == 1
SmallMaxSize == 4

(* Program constants *)

DefaultCleanupInterval == 60000
NonSerializableSize == 1024

DefaultMaxSize == 50 * 1024 * 1024
DefaultDefaultTTL == 5 * 60 * 1000

\* The clock readings of the model: the whole cleanup intervals, and the
\* millisecond after each.
Instants == {c * DefaultCleanupInterval + f : c \in 0..MaxCoarse, f \in {0, 1}}
LastInstant == MaxCoarse * DefaultCleanupInterval + 1

---------------------------------------------------------------------------
(* JavaScript values *)

Undefined == [type |-> "undefined"]
Null == [type |-> "null"]
Bool(b) == [type |-> "boolean", b |-> b]
Num(n) == [type |-> "number", n |-> n]
Str(s) == [type |-> "string", s |-> s]

\* An optional number (options.maxSize, _customTTL, ...): <<>> is undefined.
Given(n) == <<n>>
NotGiven == <<>>
Coalesce(opt, default) == IF opt = NotGiven THEN default ELSE opt[1]

Digit(d) == CASE d = 0 -> "0" [] d = 1 -> "1" [] d = 2 -> "2" [] d = 3 -> "3" [] d = 4 -> "4"
              [] d = 5 -> "5" [] d = 6 -> "6" [] d = 7 -> "7" [] d = 8 -> "8" [] d = 9 -> "9"

RECURSIVE Decimal(_)
Decimal(n) == IF n < 10 THEN Digit(n) ELSE Decimal(n \div 10) \o Digit(n % 10)

\* JSON.stringify on the values of the model: <<text>>, or <<>> for undefined
\* (JSON.stringify(undefined) is undefined, and reading its length throws).
JSONstringify(data) ==
    CASE data.type = "number" -> <<Decimal(data.n)>>
      [] data.type = "string" -> <<"\"" \o data.s \o "\"">>
      [] data.type = "boolean" -> <<IF data.b THEN "true" ELSE "false">>
      [] data.type = "null" -> <<"null">>
      [] data.type = "undefined" -> <<>>

estimateSize(data) ==
    LET json == JSONstringify(data)
    IN  IF json = <<>> THEN NonSerializableSize ELSE Len(json[1]) * 2

---------------------------------------------------------------------------
(* TTL resolution *)

StartsWith(s, p) == Len(s) >= Len(p) /\ SubSeq(s, 1, Len(p)) = p
EndsWith(s, p) == Len(s) >= Len(p) /\ SubSeq(s, Len(s) - Len(p) + 1, Len(s)) = p

\* What "." does not match (no s flag).
IsLineTerminator(ch) == ch \in {"\n", "\r"}
DotStar(s) == \A i \in 1..Len(s) : ~IsLineTerminator(SubSeq(s, i, i))

\* /^<prefix>.*<suffix>$/
TestPrefixDotStarSuffix(key, prefix, suffix) ==
    /\ Len(key) >= Len(prefix) + Len(suffix)
    /\ StartsWith(key, prefix)
    /\ EndsWith(key, suffix)
    /\ DotStar(SubSeq(key, Len(prefix) + 1, Len(key) - Len(suffix)))

\* /^<prefix>/
TestPrefix(key, prefix) == StartsWith(key, prefix)

ttlByPattern ==
    << [prefix |-> "subreddit:", suffix |-> <<":hot">>, ttl |-> 5 * 60 * 1000],
       [prefix |-> "subreddit:", suffix |-> <<":new">>, ttl |-> 2 * 60 * 1000],
       [prefix |-> "subreddit:", suffix |-> <<":top">>, ttl |-> 30 * 60 * 1000],
       [prefix |-> "post:", suffix |-> <<>>, ttl |-> 10 * 60 * 1000],
       [prefix |-> "user:", suffix |-> <<>>, ttl |-> 15 * 60 * 1000],
       [prefix |-> "search:", suffix |-> <<>>, ttl |-> 10 * 60 * 1000] >>

test(pattern, key) ==
    IF pattern.suffix = <<>>
    THEN TestPrefix(key, pattern.prefix)
    ELSE TestPrefixDotStarSuffix(key, pattern.prefix, pattern.suffix[1])

RECURSIVE ttlScan(_, _, _)
ttlScan(i, key, dttl) ==
    IF i > Len(ttlByPattern) THEN dttl
    ELSE IF test(ttlByPattern[i], key) THEN ttlByPattern[i].ttl
    ELSE ttlScan(i + 1, key, dttl)

getTTLForKey(key, dttl) == ttlScan(1, key, dttl)

---------------------------------------------------------------------------
(* The entry store *)

Range(c) == {c[i] : i \in 1..Len(c)}
Has(c, key) == \E i \in 1..Len(c) : c[i].key = key
Entry(c, key) == c[CHOOSE i \in 1..Len(c) : c[i].key = key]
Without(c, key) == SelectSeq(c, LAMBDA e : e.key # key)

RECURSIVE SumSizes(_)
SumSizes(c) == IF c = <<>> THEN 0 ELSE Head(c).size + SumSizes(Tail(c))

\* The result of a method on the store (c, su): the store after it and the
\* value it returns.
Result(c, su, ret) == [cache |-> c, sizeUsed |-> su, ret |-> ret]

delete_alwaysTrue(c, su, key) ==
    IF ~Has(c, key) THEN Result(c, su, Bool(TRUE))
    ELSE Result(Without(c, key), su - Entry(c, key).size, Bool(TRUE))

delete_keepsSize(c, su, key) ==
    IF ~Has(c, key) THEN Result(c, su, Bool(FALSE))
    ELSE Result(Without(c, key), su, Bool(TRUE))

delete(c, su, key) ==
    IF ~Has(c, key) THEN Result(c, su, Bool(FALSE))
    ELSE Result(Without(c, key), su - Entry(c, key).size, Bool(TRUE))

clear(c, su) == Result(<<>>, 0, Undefined)

Expired_atTTL(e, t, dttl) == t - e.timestamp >= getTTLForKey(e.key, dttl)

Expired(e, t, dttl) == t - e.timestamp > getTTLForKey(e.key, dttl)

get_refreshes(c, su, key, t, dttl) ==
    IF ~Has(c, key) THEN Result(c, su, Null)
    ELSE IF Expired(Entry(c, key), t, dttl)
         THEN Result(delete(c, su, key).cache, delete(c, su, key).sizeUsed, Null)
         ELSE Result([i \in 1..Len(c) |->
                          IF c[i].key = key
                          THEN [c[i] EXCEPT !.hits = @ + 1, !.timestamp = t]
                          ELSE c[i]],
                     su, Entry(c, key).data)

get_keepsExpired(c, su, key, t, dttl) ==
    IF ~Has(c, key) THEN Result(c, su, Null)
    ELSE IF Expired(Entry(c, key), t, dttl)
         THEN Result(c, su, Null)
         ELSE Result([i \in 1..Len(c) |->
                          IF c[i].key = key THEN [c[i] EXCEPT !.hits = @ + 1] ELSE c[i]],
                     su, Entry(c, key).data)

get(c, su, key, t, dttl) ==
    IF ~Has(c, key) THEN Result(c, su, Null)
    ELSE IF Expired(Entry(c, key), t, dttl)
         THEN Result(delete(c, su, key).cache, delete(c, su, key).sizeUsed, Null)
         ELSE Result([i \in 1..Len(c) |->
                          IF c[i].key = key THEN [c[i] EXCEPT !.hits = @ + 1] ELSE c[i]],
                     su, Entry(c, key).data)

---------------------------------------------------------------------------
(* Eviction *)

\* entry.hits / (age / 1000) in IEEE arithmetic: 0/0 is NaN, h/0 is +Infinity,
\* otherwise the ratio num/den (den > 0).
Infinity == [kind |-> "inf", num |-> 0, den |-> 1]
score(e, t) ==
    LET age == t - e.timestamp
    IN  IF age = 0
        THEN (IF e.hits = 0 THEN [kind |-> "nan", num |-> 0, den |-> 1] ELSE Infinity)
        ELSE [kind |-> "fin", num |-> e.hits * 1000, den |-> age]

Less_nanLowest(a, b) ==
    \/ a.kind = "nan" /\ b.kind # "nan"
    \/ /\ a.kind = "fin"
       /\ \/ b.kind = "inf"
          \/ b.kind = "fin" /\ a.num * b.den < b.num * a.den

Less_orEqual(a, b) ==
    /\ a.kind = "fin"
    /\ \/ b.kind = "inf"
       \/ b.kind = "fin" /\ a.num * b.den <= b.num * a.den

\* a < b on such numbers: every comparison with NaN is false.
Less(a, b) ==
    /\ a.kind = "fin"
    /\ \/ b.kind = "inf"
       \/ b.kind = "fin" /\ a.num * b.den < b.num * a.den

\* The scan with the update of minScore left out.
RECURSIVE lruScan_noMinUpdate(_, _, _, _, _)
lruScan_noMinUpdate(c, i, t, lruKey, minScore) ==
    IF i > Len(c) THEN lruKey
    ELSE IF Less(score(c[i], t), minScore)
         THEN lruScan_noMinUpdate(c, i + 1, t, <<c[i].key>>, minScore)
         ELSE lruScan_noMinUpdate(c, i + 1, t, lruKey, minScore)

\* The scan of evictLRU from entry i on: the final lruKey, <<>> for null.
RECURSIVE lruScan(_, _, _, _, _)
lruScan(c, i, t, lruKey, minScore) ==
    IF i > Len(c) THEN lruKey
    ELSE IF Less(score(c[i], t), minScore)
         THEN lruScan(c, i + 1, t, <<c[i].key>>, score(c[i], t))
         ELSE lruScan(c, i + 1, t, lruKey, minScore)

\* if (lruKey): null and the empty string are falsy.
Truthy(lruKey) == lruKey # <<>> /\ lruKey[1] # ""

evictLRU(c, su, t) ==
    LET lruKey == lruScan(c, 1, t, <<>>, Infinity)
    IN  IF Truthy(lruKey)
        THEN Result(delete(c, su, lruKey[1]).cache, delete(c, su, lruKey[1]).sizeUsed, Undefined)
        ELSE Result(c, su, Undefined)

---------------------------------------------------------------------------
(* set *)

MustEvict_ignoresIncoming(c, su, size, max) == su > max /\ Len(c) > 0

\* The condition of the admit loop.
MustEvict(c, su, size, max) == su + size > max /\ Len(c) > 0

\* The admit loop at clock reading t, for as long as evictLRU removes
\* something: the store it leaves, the keys it evicted in order, and
\* whether the loop is still running (its condition holds and evictLRU
\* removed nothing).
RECURSIVE admit(_, _, _, _, _, _)
admit(c, su, size, max, t, evicted) ==
    IF ~MustEvict(c, su, size, max)
    THEN [cache |-> c, sizeUsed |-> su, evicted |-> evicted, spin |-> FALSE]
    ELSE LET r == evictLRU(c, su, t)
         IN  IF r.cache = c
             THEN [cache |-> c, sizeUsed |-> su, evicted |-> evicted, spin |-> TRUE]
             ELSE admit(r.cache, r.sizeUsed, size, max, t,
                        evicted \o [i \in 1..1 |-> CHOOSE k \in {e.key : e \in Range(c)} :
                                                         ~Has(r.cache, k)])

NewEntry_storesTTL(key, data, size, t, customTTL) ==
    [key |-> key, data |-> data, timestamp |-> t, size |-> size, hits |-> 0, ttl |-> customTTL]

NewEntry(key, data, size, t, customTTL) ==
    [key |-> key, data |-> data, timestamp |-> t, size |-> size, hits |-> 0]

insert_carriesHits(c, su, key, data, size, t, customTTL) ==
    LET d == IF Has(c, key) THEN delete(c, su, key) ELSE Result(c, su, Undefined)
        hits == IF Has(c, key) THEN Entry(c, key).hits ELSE 0
    IN  Result(Append(d.cache, [NewEntry(key, data, size, t, customTTL) EXCEPT !.hits = hits]),
               d.sizeUsed + size, Undefined)

insert_keepsOld(c, su, key, data, size, t, customTTL) ==
    Result(Append(c, NewEntry(key, data, size, t, customTTL)), su + size, Undefined)

\* set after its loop: drop the old entry of the key, append the new one.
insert(c, su, key, data, size, t, customTTL) ==
    LET d == IF Has(c, key) THEN delete(c, su, key) ELSE Result(c, su, Undefined)
    IN  Result(Append(d.cache, NewEntry(key, data, size, t, customTTL)),
               d.sizeUsed + size, Undefined)

---------------------------------------------------------------------------
(* Cleanup *)

cleanup_defaultTTLOnly(c, su, t, dttl) ==
    LET keysToDelete == {c[i].key : i \in {j \in 1..Len(c) : t - c[j].timestamp > dttl}}
    IN  Result(SelectSeq(c, LAMBDA e : e.key \notin keysToDelete),
               su - SumSizes(SelectSeq(c, LAMBDA e : e.key \in keysToDelete)),
               Undefined)

cleanup_removesNothing(c, su, t, dttl) == Result(c, su, Undefined)

cleanup(c, su, t, dttl) ==
    LET keysToDelete == {c[i].key : i \in {j \in 1..Len(c) : Expired(c[j], t, dttl)}}
    IN  Result(SelectSeq(c, LAMBDA e : e.key \notin keysToDelete),
               su - SumSizes(SelectSeq(c, LAMBDA e : e.key \in keysToDelete)),
               Undefined)

---------------------------------------------------------------------------
(* The state machine *)

Keys == {"", "x", "subreddit:a:new"}
Values == {Num(7), Undefined}
CustomTTLs == {NotGiven, Given(0), Given(1)}

\* new CacheManager(options): the disabled configuration of index.ts, and a
\* small cache whose default TTL is one cleanup interval.
Options ==
    { [maxSize |-> Given(0), defaultTTL |-> Given(0), cleanupInterval |-> NotGiven],
      [maxSize |-> Given(SmallMaxSize), defaultTTL |-> Given(DefaultCleanupInterval),
       cleanupInterval |-> NotGiven] }

NoTimer == [active |-> FALSE, interval |-> 0, due |-> 0]
startCleanup(interval, t) == [active |-> TRUE, interval |-> interval, due |-> t + interval]

NoArgs == [key |-> "", data |-> Undefined, size |-> 0, evicted |-> <<>>]
Call(op, key, data, at, path, evicted, ret) ==
    [op |-> op, key |-> key, data |-> data, at |-> at, path |-> path, evicted |-> evicted,
     ret |-> ret]
NoProbe == [prefix |-> "", name |-> "", suffix |-> "", ttl |-> NotGiven]

constructor(options) ==
    /\ cache = <<>>
    /\ sizeUsed = 0
    /\ maxSize = Coalesce(options.maxSize, DefaultMaxSize)
    /\ defaultTTL = Coalesce(options.defaultTTL, DefaultDefaultTTL)
    /\ cleanupTimer = IF options.cleanupInterval # Given(0)
                      THEN startCleanup(Coalesce(options.cleanupInterval, DefaultCleanupInterval), 0)
                      ELSE NoTimer
    /\ now = 0
    /\ pc = "idle"
    /\ args = NoArgs
    /\ destroyed = FALSE
    /\ last = Call("new", "", Undefined, 0, "", <<>>, Undefined)
    /\ twin = [cache |-> <<>>, sizeUsed |-> 0, ret |-> Undefined]

Init == (\E options \in Options : constructor(options)) /\ probe = NoProbe

\* The twin run takes the same step on its own store.
TwinAfter(r) == [twin EXCEPT !.cache = r.cache, !.sizeUsed = r.sizeUsed, !.ret = r.ret]

AdvanceTime ==
    /\ \E t \in Instants : t > now /\ now' = t
    /\ UNCHANGED <<cache, sizeUsed, maxSize, defaultTTL, cleanupTimer, pc, args, destroyed, last, twin,
                   probe>>

Get(key) ==
    /\ pc = "idle"
    /\ (Has(cache, key) /\ ~Expired(Entry(cache, key), now, defaultTTL))
           => Entry(cache, key).hits < MaxHits
    /\ LET r == get(cache, sizeUsed, key, now, defaultTTL)
       IN  /\ cache' = r.cache
           /\ sizeUsed' = r.sizeUsed
           /\ last' = Call("get", key, Undefined, 0,
                           IF ~Has(cache, key) THEN "absent"
                           ELSE IF Expired(Entry(cache, key), now, defaultTTL) THEN "expired"
                           ELSE "hit",
                           <<>>, r.ret)
    /\ twin' = TwinAfter(get(twin.cache, twin.sizeUsed, key, now, defaultTTL))
    /\ UNCHANGED <<maxSize, defaultTTL, cleanupTimer, now, pc, args, destroyed, probe>>

\* set from the admit loop on, for the frame f of the call.  The run never
\* passes a customTTL; the twin run passes any.
SetRun(f) ==
    LET a == admit(cache, sizeUsed, f.size, maxSize, now, f.evicted)
        r == insert(a.cache, a.sizeUsed, f.key, f.data, f.size, now, NotGiven)
        a2 == admit(twin.cache, twin.sizeUsed, f.size, maxSize, now, <<>>)
    IN  IF a.spin
        THEN /\ cache' = a.cache
             /\ sizeUsed' = a.sizeUsed
             /\ pc' = "set"
             /\ args' = [f EXCEPT !.evicted = a.evicted]
             /\ twin' = [twin EXCEPT !.cache = a2.cache, !.sizeUsed = a2.sizeUsed]
             /\ UNCHANGED last
        ELSE /\ cache' = r.cache
             /\ sizeUsed' = r.sizeUsed
             /\ pc' = "idle"
             /\ args' = NoArgs
             /\ \E customTTL \in CustomTTLs :
                    twin' = TwinAfter(insert(a2.cache, a2.sizeUsed, f.key, f.data, f.size, now,
                                             customTTL))
             /\ last' = Call("set", f.key, f.data, now,
                             IF Has(a.cache, f.key) THEN "replace" ELSE "add",
                             a.evicted, r.ret)

Set(key, data) ==
    /\ pc = "idle"
    /\ now < LastInstant
    /\ SetRun([key |-> key, data |-> data, size |-> estimateSize(data), evicted |-> <<>>])
    /\ UNCHANGED <<maxSize, defaultTTL, cleanupTimer, now, destroyed, probe>>

SetResume ==
    /\ pc = "set"
    /\ SetRun(args)
    /\ UNCHANGED <<maxSize, defaultTTL, cleanupTimer, now, destroyed, probe>>

Delete(key) ==
    /\ pc = "idle"
    /\ LET r == delete(cache, sizeUsed, key)
       IN  /\ cache' = r.cache
           /\ sizeUsed' = r.sizeUsed
           /\ last' = Call("delete", key, Undefined, 0,
                           IF Has(cache, key) THEN "present" ELSE "absent", <<>>, r.ret)
    /\ twin' = TwinAfter(delete(twin.cache, twin.sizeUsed, key))
    /\ UNCHANGED <<maxSize, defaultTTL, cleanupTimer, now, pc, args, destroyed, probe>>

Clear ==
    /\ pc = "idle"
    /\ LET r == clear(cache, sizeUsed)
       IN  /\ cache' = r.cache
           /\ sizeUsed' = r.sizeUsed
           /\ last' = Call("clear", "", Undefined, 0, "", <<>>, r.ret)
    /\ twin' = TwinAfter(clear(twin.cache, twin.sizeUsed))
    /\ UNCHANGED <<maxSize, defaultTTL, cleanupTimer, now, pc, args, destroyed, probe>>

\* One firing of the interval timer: it runs between calls, when it is due.
CleanupTick ==
    /\ pc = "idle"
    /\ cleanupTimer.active
    /\ now >= cleanupTimer.due
    /\ LET r == cleanup(cache, sizeUsed, now, defaultTTL)
       IN  /\ cache' = r.cache
           /\ sizeUsed' = r.sizeUsed
           /\ last' = Call("cleanup", "", Undefined, 0, "",
                           [i \in 1..(Len(cache) - Len(r.cache)) |->
                                SelectSeq(cache, LAMBDA e : ~Has(r.cache, e.key))[i].key],
                           r.ret)
    /\ twin' = TwinAfter(cleanup(twin.cache, twin.sizeUsed, now, defaultTTL))
    /\ cleanupTimer' = [cleanupTimer EXCEPT !.due = now + cleanupTimer.interval]
    /\ UNCHANGED <<maxSize, defaultTTL, now, pc, args, destroyed, probe>>

destroyTimer_keepsTimer(timer) == timer

\* clearInterval(this.cleanupTimer); this.cleanupTimer = null
destroyTimer(timer) == NoTimer

Destroy ==
    /\ pc = "idle"
    /\ cleanupTimer' = destroyTimer(cleanupTimer)
    /\ LET r == clear(cache, sizeUsed)
       IN  /\ cache' = r.cache
           /\ sizeUsed' = r.sizeUsed
           /\ last' = Call("destroy", "", Undefined, 0, "", <<>>, r.ret)
    /\ destroyed' = TRUE
    /\ twin' = TwinAfter(clear(twin.cache, twin.sizeUsed))
    /\ UNCHANGED <<maxSize, defaultTTL, now, pc, args, probe>>

Next ==
    \/ AdvanceTime
    \/ \E key \in Keys : Get(key)
    \/ \E key \in Keys, data \in Values : Set(key, data)
    \/ SetResume
    \/ \E key \in Keys : Delete(key)
    \/ Clear
    \/ CleanupTick
    \/ Destroy

Spec == Init /\ [][Next]_vars

\* The clock keeps running and a started call of set keeps executing.
FairSpec == Spec /\ WF_vars(AdvanceTime) /\ WF_vars(SetResume)

\* The clock keeps running and the interval timer fires whenever it stays due
\* while no call is running.
LiveSpec == Spec /\ WF_vars(AdvanceTime) /\ WF_vars(CleanupTick)

---------------------------------------------------------------------------
(* TTL resolution on its own: getTTLForKey applied to keys built from a    *)
(* prefix, a name and a suffix, under each configured default TTL.         *)

ProbePrefixes == {"subreddit:", "post:", "user:", "search:", "", "xpost:", "subreddit"}
ProbeNames == {"", "foo", "a:b", "a\nb"}
ProbeSuffixes == {":hot", ":new", ":top", "", ":hot1"}

ProbeKey(p) == p.prefix \o p.name \o p.suffix

\* The configurations above, and one that leaves defaultTTL to its default
\* and disables the cleanup timer.
ProbeOptions ==
    Options \cup {[maxSize |-> NotGiven, defaultTTL |-> NotGiven, cleanupInterval |-> Given(0)]}

TTLInit ==
    /\ \E options \in ProbeOptions : constructor(options)
    /\ probe \in [prefix : ProbePrefixes, name : ProbeNames, suffix : ProbeSuffixes,
                  ttl : {NotGiven}]

Resolve ==
    /\ probe.ttl = NotGiven
    /\ probe' = [probe EXCEPT !.ttl = Given(getTTLForKey(ProbeKey(probe), defaultTTL))]
    /\ UNCHANGED <<cache, sizeUsed, maxSize, defaultTTL, cleanupTimer, now, pc, args, destroyed,
                   last, twin>>

TTLNext == Resolve

TTLSpec == TTLInit /\ [][TTLNext]_vars

---------------------------------------------------------------------------
(* Properties *)

\* C1: in every state, sizeUsed equals the sum of the size fields of the
\* resident entries.
C1_SizeUsedIsSum == sizeUsed = SumSizes(cache)

\* A successful delete has left another entry resident.
C1_Witness ==
    /\ last.op = "delete"
    /\ last.ret = Bool(TRUE)
    /\ Len(cache) >= 1
    /\ sizeUsed > 0

\* C2: after every completed call, sizeUsed <= maxSize unless the store holds
\* exactly one entry and that entry is larger than maxSize.
C2_SizeBound ==
    pc = "idle" =>
        \/ sizeUsed <= maxSize
        \/ Len(cache) = 1 /\ cache[1].size > maxSize

\* set has evicted to admit an entry larger than a positive maxSize.
C2_Witness ==
    /\ pc = "idle"
    /\ last.op = "set"
    /\ last.evicted # <<>>
    /\ maxSize > 0
    /\ sizeUsed > maxSize

\* C3: every call of set terminates with the new entry inserted: a call that
\* is in its admit loop eventually completes.
C3_SetTerminates == (pc = "set") ~> (pc = "idle" /\ last.op = "set")

\* C4: a get(k) that directly follows a completed set(k, v), with the time
\* elapsed since the set not greater than the TTL resolved for k, returns v.
C4_RoundTrip ==
    [][\A k \in Keys :
          (/\ last.op = "set"
           /\ last.key = k
           /\ now - last.at <= getTTLForKey(k, defaultTTL)
           /\ Get(k))
          => last'.ret = last.data]_vars

\* The first get after a set has returned the value, for a value larger
\* than maxSize.
C4_Witness ==
    /\ last.op = "get"
    /\ last.path = "hit"
    /\ Has(cache, last.key)
    /\ Entry(cache, last.key).hits = 1
    /\ Entry(cache, last.key).size > maxSize
    /\ last.ret = Entry(cache, last.key).data

\* C5: a get(k) on a resident entry with now - timestamp > TTL(k) returns
\* null and removes the entry, decrementing sizeUsed by its size; a delete(k)
\* directly after such a get returns false.
C5_ExpiredGet ==
    [][\A k \in Keys :
          /\ (/\ Get(k)
               /\ Has(cache, k)
               /\ now - Entry(cache, k).timestamp > getTTLForKey(k, defaultTTL))
              => (/\ last'.ret = Null
                  /\ ~Has(cache', k)
                  /\ sizeUsed' = sizeUsed - Entry(cache, k).size)
          /\ (/\ last.op = "get"
               /\ last.key = k
               /\ last.path = "expired"
               /\ Delete(k))
              => last'.ret = Bool(FALSE)]_vars

\* A get has found its entry expired and removed it, another entry staying
\* resident.
C5_Witness ==
    /\ last.op = "get"
    /\ last.path = "expired"
    /\ last.ret = Null
    /\ ~Has(cache, last.key)
    /\ Len(cache) >= 1

\* A step of set (a call, or the continuation of a call in its admit loop):
\* the clock stands, and the step enters, continues or completes a set.
IsSetStep == now' = now /\ (pc = "set" \/ pc' = "set" \/ (last'.op = "set" /\ vars' # vars))

\* The keys the admit loop evicts in this step, in order.
StepEvicted ==
    LET e == IF pc' = "set" THEN args'.evicted ELSE last'.evicted
    IN  SubSeq(e, Len(args.evicted) + 1, Len(e))

\* The store before the i-th eviction of this step.
StoreBefore(i) == SelectSeq(cache, LAMBDA e : \A j \in 1..(i - 1) : StepEvicted[j] # e.key)

\* hits/age of v is defined and not greater than that of e, when e's is defined.
ScoreLeq(v, e, t) ==
    /\ t - v.timestamp > 0
    /\ t - e.timestamp > 0 => v.hits * (t - e.timestamp) <= e.hits * (t - v.timestamp)

ScenarioA == [key |-> "A", data |-> Num(1), timestamp |-> 99000, size |-> 60, hits |-> 10]
ScenarioB == [key |-> "B", data |-> Num(2), timestamp |-> 0, size |-> 60, hits |-> 0]

\* C6: each eviction of set removes the resident entry whose score hits/age is
\* the minimum of the resident entries' scores; the entries set removes from
\* the store are the evicted ones and the old entry of its key.  With maxSize
\* 100, A (size 60, hits 10, age 1 s) and B (size 60, hits 0, age 100 s),
\* inserting a value of size 60 evicts B, then A.
C6_EvictsMinScore ==
    /\ evictLRU(<<ScenarioA, ScenarioB>>, 120, 100000).cache = <<ScenarioA>>
    /\ admit(<<ScenarioA, ScenarioB>>, 120, 60, 100, 100000, <<>>).evicted = <<"B", "A">>
    /\ [][IsSetStep =>
           /\ \A i \in 1..Len(StepEvicted) :
                  /\ Has(StoreBefore(i), StepEvicted[i])
                  /\ \A e \in Range(StoreBefore(i)) :
                         ScoreLeq(Entry(cache, StepEvicted[i]), e, now)
           /\ \A e \in Range(cache) :
                  \/ e \in Range(cache') /\ \A i \in 1..Len(StepEvicted) : StepEvicted[i] # e.key
                  \/ e \notin Range(cache') /\ \E i \in 1..Len(StepEvicted) : StepEvicted[i] = e.key
                  \/ e \notin Range(cache') /\ pc' = "idle" /\ e.key = last'.key
         ]_vars

\* set has evicted an entry and spared one whose score was positive.
C6_Witness ==
    /\ last.op = "set"
    /\ last.evicted # <<>>
    /\ \E e \in Range(cache) :
           /\ e.key # last.key
           /\ e.hits >= 1
           /\ e.timestamp < last.at

\* C7: delete(k) on a key that is not resident returns false and changes
\* neither the store nor sizeUsed; on a resident key it returns true, removes
\* exactly that entry and decrements sizeUsed by exactly its size.
C7_Delete ==
    [][\A k \in Keys :
          Delete(k) =>
              IF \E e \in Range(cache) : e.key = k
              THEN /\ last'.ret = Bool(TRUE)
                   /\ cache' = SelectSeq(cache, LAMBDA e : e.key # k)
                   /\ Len(cache') = Len(cache) - 1
                   /\ sizeUsed' = sizeUsed - Entry(cache, k).size
              ELSE /\ last'.ret = Bool(FALSE)
                   /\ cache' = cache
                   /\ sizeUsed' = sizeUsed]_vars

\* A delete of a key that was not resident has returned false, the store
\* holding other entries.
C7_Witness ==
    /\ last.op = "delete"
    /\ last.path = "absent"
    /\ last.ret = Bool(FALSE)
    /\ Len(cache) >= 1
    /\ sizeUsed > 0

\* C8: once destroy() has been called, no cleanup tick runs, however far the
\* clock advances.
C8_NoSweepAfterDestroy == [][destroyed => (~CleanupTick /\ last'.op # "cleanup")]_vars

\* After destroy, an entry inserted since is expired and still resident at a
\* time when a tick of the timer would have been due.
C8_Witness ==
    /\ destroyed
    /\ now >= DefaultCleanupInterval
    /\ \E e \in Range(cache) : now - e.timestamp > getTTLForKey(e.key, defaultTTL)

\* The TTL the rule table gives a key built from prefix, name and suffix.
TableTTL(p, dttl) ==
    CASE p.prefix = "subreddit:" /\ p.suffix = ":hot" -> 5 * 60 * 1000
      [] p.prefix = "subreddit:" /\ p.suffix = ":new" -> 2 * 60 * 1000
      [] p.prefix = "subreddit:" /\ p.suffix = ":top" -> 30 * 60 * 1000
      [] p.prefix = "post:" -> 10 * 60 * 1000
      [] p.prefix = "user:" -> 15 * 60 * 1000
      [] p.prefix = "search:" -> 10 * 60 * 1000
      [] OTHER -> dttl

\* C9: a key subreddit:<name>:hot resolves to 5 minutes, subreddit:<name>:new
\* to 2, subreddit:<name>:top to 30, post:* to 10, user:* to 15, search:* to
\* 10, and every other key to the configured defaultTTL.
C9_TTLTable == probe.ttl # NotGiven => probe.ttl[1] = TableTTL(probe, defaultTTL)

\* The same for names that hold no line terminator.
C9_TTLTableOneLine ==
    (probe.ttl # NotGiven /\ probe.name # "a\nb") => probe.ttl[1] = TableTTL(probe, defaultTTL)

\* C10: the run and the twin run, which differ only in the customTTL passed
\* to set, have the same store and the same return values.
C10_CustomTTLNoEffect ==
    /\ twin.cache = cache
    /\ twin.sizeUsed = sizeUsed
    /\ pc = "idle" => twin.ret = last.ret

\* A get has returned the value of an entry older than every customTTL the
\* twin run passed.
C10_Witness ==
    /\ last.op = "get"
    /\ last.path = "hit"
    /\ last.ret # Null
    /\ twin.ret = last.ret
    /\ \A ttl \in CustomTTLs \ {NotGiven} : now - Entry(cache, last.key).timestamp > ttl[1]

\* C11: in the disabled configuration (maxSize = 0 and defaultTTL = 0) a get
\* issued strictly later than the set of its key returns absent, for every
\* key, keys of the TTL rule table included.
C11_DisabledCachesNothing ==
    [][(maxSize = 0 /\ defaultTTL = 0) =>
          \A k \in Keys :
              (Get(k) /\ Has(cache, k) /\ now > Entry(cache, k).timestamp)
                  => last'.ret = Null]_vars

\* The same for the keys that no rule of the table matches.
C11_DisabledDefaultKeys ==
    [][(maxSize = 0 /\ defaultTTL = 0) =>
          \A k \in Keys :
              (Get(k) /\ Has(cache, k) /\ now > Entry(cache, k).timestamp
                  /\ getTTLForKey(k, defaultTTL) = defaultTTL)
                  => last'.ret = Null]_vars

\* A step that completes a call of set (at once or after its loop has run on).
IsSetReturn == IsSetStep /\ pc' = "idle"

\* C12: with cleanup ticks interleaved between the calls, get(k) returns
\* absent or the value of the latest set(k, .) that no delete(k) or clear has
\* followed, never an older value of k or a value of another key.  By
\* induction over the steps: the store holds at most one entry per key; get(k)
\* returns null or the data of the entry resident under k; the data resident
\* under a key changes only when a set of that key returns, to the value
\* passed, and no step (a tick included) brings in any other entry; delete(k)
\* leaves no entry under k and clear leaves none at all.
C12_GetReturnsLatestSet ==
    [][/\ \A i, j \in 1..Len(cache') : cache'[i].key = cache'[j].key => i = j
       /\ \A k \in Keys :
              Get(k) => \/ last'.ret = Null
                        \/ \E e \in Range(cache) : e.key = k /\ last'.ret = e.data
       /\ \A n \in Range(cache') :
              IF IsSetReturn /\ n.key = last'.key
              THEN n.data = last'.data
              ELSE \E e \in Range(cache) : e.key = n.key /\ e.data = n.data
       /\ \A k \in Keys : Delete(k) => ~Has(cache', k)
       /\ Clear => cache' = <<>>
       /\ CleanupTick => \A n \in Range(cache') : n \in Range(cache)]_vars

\* A get has returned the value of an entry that was set before the last
\* cleanup tick and was left in place by it.
C12_Witness ==
    /\ last.op = "get"
    /\ last.path = "hit"
    /\ cleanupTimer.active
    /\ cleanupTimer.due > DefaultCleanupInterval
    /\ Entry(cache, last.key).timestamp < cleanupTimer.due - cleanupTimer.interval
    /\ last.ret = Entry(cache, last.key).data

\* The sizes a call of set can bring.
IncomingSizes == {estimateSize(data) : data \in Values}

\* C13: whenever set would invoke evictLRU (its loop condition holds for some
\* incoming value, so the store is not empty), the invocation removes exactly
\* one resident entry.
C13_EvictRemovesOne ==
    \A size \in IncomingSizes :
        (pc = "idle" /\ MustEvict(cache, sizeUsed, size, maxSize))
            => /\ Len(evictLRU(cache, sizeUsed, now).cache) = Len(cache) - 1
               /\ \A n \in Range(evictLRU(cache, sizeUsed, now).cache) : n \in Range(cache)

\* The same where every key is non-empty and some entry is older than the
\* current instant.
C13_EvictRemovesOneAged ==
    \A size \in IncomingSizes :
        (/\ pc = "idle"
         /\ MustEvict(cache, sizeUsed, size, maxSize)
         /\ \A e \in Range(cache) : e.key # ""
         /\ \E e \in Range(cache) : e.timestamp < now)
            => Len(evictLRU(cache, sizeUsed, now).cache) = Len(cache) - 1

\* The score of e at instant t is 0/0.
ScoreUndefined(e, t) == e.timestamp = t /\ e.hits = 0

\* C14: an entry with age 0 and hits 0 (score 0/0) is never the victim of
\* evictLRU, in particular not while another resident entry has a
\* well-defined score: neither the scan over the current store selects one,
\* nor does any step of set evict one.
C14_UndefinedScoreNeverVictim ==
    [][/\ LET lruKey == lruScan(cache, 1, now, <<>>, Infinity)
          IN  lruKey # <<>> => ~ScoreUndefined(Entry(cache, lruKey[1]), now)
       /\ IsSetStep =>
              \A i \in 1..Len(StepEvicted) :
                  ~ScoreUndefined(Entry(cache, StepEvicted[i]), now)]_vars

\* A set has evicted an entry while an entry created at the same instant and
\* never read stayed resident.
C14_Witness ==
    /\ last.op = "set"
    /\ last.evicted # <<>>
    /\ now = last.at
    /\ \E e \in Range(cache) : e.key # last.key /\ ScoreUndefined(e, now)

\* The position of the entry of key in the store c.
IndexOf(c, key) == CHOOSE i \in 1..Len(c) : c[i].key = key

\* C15: among the resident entries that share the minimum score, the one
\* evicted is the earliest in insertion order: every entry before the victim
\* in the store has a strictly higher score.  A set moves its key to the end of
\* that order, also when it replaces a resident entry.
C15_TieEvictsEarliest ==
    [][/\ IsSetStep =>
              \A i \in 1..Len(StepEvicted) :
                  LET S == StoreBefore(i)
                      p == IndexOf(S, StepEvicted[i])
                  IN  \A j \in 1..(p - 1) :
                          now - S[j].timestamp > 0
                              => S[p].hits * (now - S[j].timestamp)
                                     < S[j].hits * (now - S[p].timestamp)
       /\ IsSetReturn => cache'[Len(cache')].key = last'.key]_vars

\* A set has evicted an entry of score 0 while another entry of score 0 stayed
\* resident.
C15_Witness ==
    /\ last.op = "set"
    /\ last.evicted # <<>>
    /\ \E e \in Range(cache) : e.key # last.key /\ e.hits = 0 /\ e.timestamp < last.at

\* The key and the size of the value of the call of set that takes a step.
StepKey == IF pc' = "set" THEN args'.key ELSE last'.key
StepSize == IF pc' = "set" THEN args'.size ELSE estimateSize(last'.data)

\* C16: set(k, v) evicts an entry of another key only when v does not fit
\* within maxSize together with the entries that remain, the old entry of k
\* not counted; so replacing a value by one of the same or a smaller size
\* evicts no other key.
C16_EvictsOnlyForRoom ==
    [][IsSetStep =>
          \A i \in 1..Len(StepEvicted) :
              StepEvicted[i] # StepKey
                  => SumSizes(SelectSeq(StoreBefore(i), LAMBDA e : e.key # StepKey)) + StepSize
                         > maxSize]_vars

\* The same with the old entry of k counted.
C16_EvictsOnlyWhenOverfull ==
    [][IsSetStep =>
          \A i \in 1..Len(StepEvicted) :
              SumSizes(StoreBefore(i)) + StepSize > maxSize]_vars

\* C17: a get on a resident, unexpired entry adds exactly 1 to its hits and
\* changes nothing else: its value, timestamp and size, every other entry, the
\* resident keys and their order, and sizeUsed stay as they were; it returns
\* the value.  A get on an absent key changes neither the store nor sizeUsed.
C17_GetFrame ==
    [][\A k \in Keys :
          Get(k) =>
              IF ~(\E e \in Range(cache) : e.key = k)
              THEN cache' = cache /\ sizeUsed' = sizeUsed /\ last'.ret = Null
              ELSE (now - Entry(cache, k).timestamp <= getTTLForKey(k, defaultTTL))
                       => /\ Len(cache') = Len(cache)
                          /\ sizeUsed' = sizeUsed
                          /\ last'.ret = Entry(cache, k).data
                          /\ \A i \in 1..Len(cache) :
                                 IF cache[i].key = k
                                 THEN cache'[i] = [cache[i] EXCEPT !.hits = cache[i].hits + 1]
                                 ELSE cache'[i] = cache[i]]_vars

\* A get has hit one of two resident entries; the other has not been read.
C17_Witness ==
    /\ last.op = "get"
    /\ last.path = "hit"
    /\ Len(cache) = 2
    /\ Entry(cache, last.key).hits = 1
    /\ \E e \in Range(cache) : e.key # last.key /\ e.hits = 0

\* C18: a cleanup tick removes exactly the resident entries with
\* now - timestamp > TTL(key): right after the tick no resident entry is
\* expired, and every entry that was not expired is still resident, unchanged
\* and in the same order; sizeUsed drops by the sizes removed.
C18_TickRemovesExpired ==
    [][CleanupTick =>
          /\ cache' = SelectSeq(cache, LAMBDA e :
                          ~(now - e.timestamp > getTTLForKey(e.key, defaultTTL)))
          /\ \A e \in Range(cache') : now - e.timestamp <= getTTLForKey(e.key, defaultTTL)
          /\ \A e \in Range(cache) :
                 (now - e.timestamp <= getTTLForKey(e.key, defaultTTL)) => e \in Range(cache')
          /\ sizeUsed' = SumSizes(cache')]_vars

\* A tick has removed an expired entry and left an older, unexpired one
\* resident.
C18_Witness ==
    /\ last.op = "cleanup"
    /\ last.evicted # <<>>
    /\ \E e \in Range(cache) : now - e.timestamp > defaultTTL

\* The entry of key k inserted at instant ts is resident.
Resident(k, ts) == \E e \in Range(cache) : e.key = k /\ e.timestamp = ts

\* The entry of key k inserted at ts expires before the pending tick is due,
\* and that tick is due within the instants the clock takes.
SweepPending(k, ts) ==
    /\ Resident(k, ts)
    /\ cleanupTimer.active
    /\ ts + getTTLForKey(k, defaultTTL) < cleanupTimer.due
    /\ cleanupTimer.due <= LastInstant

C20_ReplaceIsFresh ==
    [][IsSetReturn =>
          /\ Cardinality({i \in 1..Len(cache') : cache'[i].key = last'.key}) = 1
          /\ Entry(cache', last'.key)
                 = [key |-> last'.key, data |-> last'.data, timestamp |-> now,
                    size |-> estimateSize(last'.data), hits |-> 0]
          /\ (pc = "idle" /\ Has(cache, last'.key))
                 => \A e \in Range(cache) :
                        (e.key = last'.key /\ e # Entry(cache', last'.key))
                            => e \notin Range(cache')]_vars

\* A set has replaced a resident entry, later than the start of the run.
C20_Witness ==
    /\ last.op = "set"
    /\ last.path = "replace"
    /\ last.at > 0
    /\ Len(cache) = 1
    /\ Entry(cache, last.key).hits = 0
    /\ Entry(cache, last.key).timestamp = last.at
    /\ Entry(cache, last.key).data = last.data

====
